---- MODULE Spec2Model ----
(***************************************************************************)
(* A model of the browser library application in src/app.js.               *)
(*                                                                         *)
(* Representation of JavaScript values:                                    *)
(*   - a JS string the code looks into (title, path, form text, ...) is a  *)
(*     sequence of one-character strings; ids, provenance strings and      *)
(*     alert messages, which the code only compares and concatenates, are  *)
(*     TLA+ strings;                                                       *)
(*   - a JS object is a record; a property that is undefined is a field    *)
(*     that is not in the record's DOMAIN;                                 *)
(*   - a JS number is Num(n); NaN, Infinity and null are records;          *)
(*   - searchThreshold is held in hundredths (0.4 is 40), the viewer scale *)
(*     in tenths (1.0 is 10).                                              *)
(***************************************************************************)
EXTENDS Integers, Sequences, FiniteSets, TLC

VARIABLES
    ls,             \* localStorage: [config, books], each a stored value
    booted,         \* "no" before DOMContentLoaded, then "done" or "crashed"
    config,         \* state.config
    books,          \* state.books
    filteredBooks,  \* state.filteredBooks, the cards rendered in #booksGrid
    activeTags,     \* state.activeTags
    fields,         \* state.fields
    tags,           \* state.tags
    fuse,           \* state.fuse
    pdf,            \* state.pdf
    renders,        \* the calls of renderPdfPage suspended at an await
    sessions,       \* the documents pdf.js holds open (loaded, not destroyed)
    editingId,      \* the module-level editingId
    dom,            \* the controls of the page the code reads and writes
    scans,          \* number of scanBooks calls awaiting their fetch
    reads,          \* number of FileReader.readAsText calls not yet loaded
    download,       \* the books.json files exportBooksJson offered, in order
    opened,         \* the locator given to window.open last
    editLog,        \* per catalog position: provenance when loaded, saves since
    search,         \* the clock, the timers of the debounced search, its events
    last            \* the handler step that ran last, its input and outcome

vars == <<ls, booted, config, books, filteredBooks, activeTags, fields, tags,
          fuse, pdf, renders, sessions, editingId, dom, scans, reads, download,
          opened, editLog, search, last>>

\* the viewer and what it leaves outside the page
viewer == <<pdf, renders, sessions, opened>>

-----------------------------------------------------------------------------
(* Bounds *)

MaxManifest == 2    \* longest manifest array fetched or imported
MaxScans    == 1    \* scans awaiting their fetch at one time
MaxReads    == 1    \* file reads pending at one time
MaxEdits    == 2    \* edit saves applied to one catalog before it is replaced
MaxRenders  == 2    \* calls of renderPdfPage suspended at one time
MaxExports  == 1    \* exports in one session
MaxZoom     == 1    \* zoom steps the user goes away from 100%
MaxTicks    == 5    \* length of a session on the clock, in tenths of a second

-----------------------------------------------------------------------------
(* JavaScript values *)

JSNull == [null |-> TRUE]
NaN    == [nan |-> TRUE]

\* the number a JSON literal beyond the range of doubles (1e999) is read as
Infinity == [inf |-> TRUE]
Num(n) == [num |-> n]

Has(o, f) == f \in DOMAIN o

\* Number.isFinite(v)
IsFinite(v) == Has(v, "num")

\* typeof v === 'number'
TypeofNumber(v) == Has(v, "num") \/ Has(v, "nan") \/ Has(v, "inf")

\* x || d for a property f of o holding a JS string (sequence of characters)
OrText(o, f, d) == IF Has(o, f) /\ o[f] # <<>> THEN o[f] ELSE d

\* x || d for a property f of o holding an id or provenance string
OrStr(o, f, d) == IF Has(o, f) /\ o[f] # "" THEN o[f] ELSE d

\* x || d for a property f of o holding a number or null
OrNum(o, f, d) ==
    IF Has(o, f) /\ o[f] \notin {Num(0), NaN, JSNull} THEN o[f] ELSE d

\* x || [] for a property f of o holding an array
OrList(o, f) == IF Has(o, f) THEN o[f] ELSE <<>>

-----------------------------------------------------------------------------
(* Strings as sequences of characters *)

Alphabet == <<" ", ",", ".", "/", "%", "+", "-", "0", "1", "2", "3", "4", "5",
              "6", "7", "8", "9", "a", "B", "b", "c", "d", "e", "f", "k", "l",
              "m", "n", "o", "p", "r", "s", "t", "u", "x", "y">>

Rank(c) == CHOOSE i \in 1..Len(Alphabet) : Alphabet[i] = c

Digits == <<"0", "1", "2", "3", "4", "5", "6", "7", "8", "9">>

IsDigit(c) == \E i \in 1..10 : Digits[i] = c

DigitVal(c) == (CHOOSE i \in 1..10 : Digits[i] = c) - 1

RECURSIVE TrimStart(_)
TrimStart(s) ==
    IF s # <<>> /\ Head(s) = " " THEN TrimStart(Tail(s)) ELSE s

RECURSIVE TrimEnd(_)
TrimEnd(s) ==
    IF s # <<>> /\ s[Len(s)] = " " THEN TrimEnd(SubSeq(s, 1, Len(s) - 1)) ELSE s

\* String.prototype.trim
Trim(s) == TrimEnd(TrimStart(s))

\* String.prototype.split(sep) for a one-character separator: always at
\* least one piece, the pieces between consecutive separators
RECURSIVE SplitAcc(_, _, _)
SplitAcc(s, sep, cur) ==
    IF s = <<>> THEN <<cur>>
    ELSE IF Head(s) = sep THEN <<cur>> \o SplitAcc(Tail(s), sep, <<>>)
    ELSE SplitAcc(Tail(s), sep, Append(cur, Head(s)))

Split(s, sep) == SplitAcc(s, sep, <<>>)

\* Array.prototype.join(sep) over strings
RECURSIVE Join(_, _)
Join(list, sep) ==
    IF list = <<>> THEN <<>>
    ELSE IF Len(list) = 1 THEN list[1]
    ELSE list[1] \o sep \o Join(Tail(list), sep)

\* a.localeCompare(b) < 0, on the characters of Alphabet in their order
RECURSIVE TextLess(_, _)
TextLess(a, b) ==
    IF b = <<>> THEN FALSE
    ELSE IF a = <<>> THEN TRUE
    ELSE IF Head(a) = Head(b) THEN TextLess(Tail(a), Tail(b))
    ELSE Rank(Head(a)) < Rank(Head(b))

\* encodeURI: of the characters used here only the space and the percent
\* sign are escaped
RECURSIVE EncodeURI(_)
EncodeURI(s) ==
    IF s = <<>> THEN <<>>
    ELSE (IF Head(s) = " " THEN <<"%", "2", "0">>
          ELSE IF Head(s) = "%" THEN <<"%", "2", "5">>
          ELSE <<Head(s)>>) \o EncodeURI(Tail(s))

Range(list) == {list[i] : i \in 1..Len(list)}

-----------------------------------------------------------------------------
(* Configuration and persisted values *)

sBooks == <<"B", "o", "o", "k", "s">>

DEFAULT_CONFIG ==
    [rootFolder |-> sBooks, fuzzySearch |-> TRUE,
     searchThreshold |-> 40, maxViewerSizeMB |-> 10]

\* A value under a localStorage key: absent (getItem gives null), the empty
\* string, a text JSON.parse rejects, or the text of a JSON value
LsAbsent   == [kind |-> "absent"]
LsEmpty    == [kind |-> "empty"]
LsGarbage  == [kind |-> "garbage"]
LsJson(v)  == [kind |-> "json", val |-> v]
\* the text of a JSON value that is no object: null, a number, true
LsScalar   == [kind |-> "scalar"]

\* if (raw): getItem gave a non-empty string
LsTruthy(raw) == raw.kind \in {"garbage", "json", "scalar"}

\* JSON.stringify then JSON.parse of a number: NaN and Infinity are written
\* as null
JsonOfNumber(v) == IF v \in {NaN, Infinity} THEN JSNull ELSE v

\* JSON.stringify then JSON.parse of one catalog record or manifest entry: a
\* property that is undefined is dropped, a number that is not finite is
\* written as null, the rest is kept
JsonOfBook(b) ==
    [f \in DOMAIN b |->
        IF f \in {"sizeBytes", "addedAt"} THEN JsonOfNumber(b[f]) ELSE b[f]]

\* JSON.stringify(state.books), as the JSON value the text denotes
JsonOfBooks(list) == [i \in 1..Len(list) |-> JsonOfBook(list[i])]

\* saveBooks
saveBooks(list) == LsJson(JsonOfBooks(list))

\* saveConfig: the configuration holds a string, a boolean and two finite
\* numbers, which JSON writes and reads back unchanged
saveConfig(c) == LsJson(c)

\* { ...DEFAULT_CONFIG, ...parsed }
Spread(base, over) ==
    [f \in DOMAIN base \cup DOMAIN over |->
        IF f \in DOMAIN over THEN over[f] ELSE base[f]]

\* loadConfig: the configuration after it, from the one before
loadConfig(raw, c) ==
    IF ~LsTruthy(raw) THEN c
    ELSE IF raw.kind = "garbage" THEN DEFAULT_CONFIG
    ELSE IF raw.kind = "scalar" THEN DEFAULT_CONFIG
    ELSE Spread(DEFAULT_CONFIG, raw.val)

\* loadBooks: the catalog after it, from the one before
loadBooks(raw, list) ==
    IF ~LsTruthy(raw) THEN list
    ELSE IF raw.kind = "garbage" THEN <<>>
    ELSE raw.val

-----------------------------------------------------------------------------
(* Catalog records *)

\* filenameFromPath, for a path that is a string
filenameFromPath(p) == LET parts == Split(p, "/") IN parts[Len(parts)]

\* reading a property of the entry throws (the entry is null), or
\* filenameFromPath throws (path is undefined and has no split)
EntryThrows(item) == item = JSNull \/ ~Has(item, "path")

ManifestThrows(m) == \E i \in 1..Len(m) : EntryThrows(m[i])

\* the record scanBooks and importBooksJson build from one entry; uid is
\* what uniqueId() returns, now what Date.now() returns, src the default
\* provenance
NormalizeEntry(item, uid, now, src) ==
    [id             |-> OrStr(item, "id", uid),
     title          |-> OrText(item, "title", <<>>),
     author         |-> OrText(item, "author", <<>>),
     field          |-> OrText(item, "field", <<>>),
     tags           |-> OrList(item, "tags"),
     description    |-> OrText(item, "description", <<>>),
     path           |-> item.path,
     filename       |-> filenameFromPath(item.path),
     sizeBytes      |-> IF Has(item, "sizeBytes") /\ TypeofNumber(item.sizeBytes)
                        THEN item.sizeBytes ELSE NaN,
     addedAt        |-> OrNum(item, "addedAt", Num(now)),
     metadataSource |-> OrStr(item, "metadataSource", src)]

\* NormalizeAll with the new records added to the catalog instead of
\* replacing it
NormalizeAllMerging(m, uids, now, src) ==
    books \o [i \in 1..Len(m) |-> NormalizeEntry(m[i], uids[i], now, src)]

\* manifest.map(...) with the values uniqueId() returned per position
NormalizeAll(m, uids, now, src) ==
    [i \in 1..Len(m) |-> NormalizeEntry(m[i], uids[i], now, src)]

\* the manifest exportBooksJson builds, as the JSON value of the file: a
\* property whose value is undefined is not written
ExportEntry(b) ==
    LET copied == {"id", "title", "author", "field", "tags", "description",
                   "path", "addedAt", "metadataSource"} \cap DOMAIN b
        keys   == IF Has(b, "sizeBytes") /\ IsFinite(b.sizeBytes)
                  THEN copied \cup {"sizeBytes"} ELSE copied
    IN  JsonOfBook([f \in keys |-> b[f]])

exportBooksJson(list) == [i \in 1..Len(list) |-> ExportEntry(list[i])]

-----------------------------------------------------------------------------
(* Search index, facets and the filter pipeline *)

\* an optional reference: <<>> is null, <<v>> is v
None    == <<>>
Some(v) == <<v>>

\* initFuse: the index is built over the catalog with the threshold
initFuse(c, list) ==
    IF ~c.fuzzySearch \/ Len(list) = 0 THEN None
    ELSE Some([docs |-> list, threshold |-> c.searchThreshold])

\* rebuildFacets throws when a catalog entry is null (b.field of null)
FacetsThrow(list) == \E i \in 1..Len(list) : list[i] = JSNull

\* state.fields after rebuildFacets
FacetFields(list) ==
    {list[i].field : i \in {j \in 1..Len(list) :
        Has(list[j], "field") /\ list[j].field # <<>>}}

\* state.tags after rebuildFacets
FacetTags(list) ==
    UNION {{t \in Range(OrList(list[i], "tags")) : t # <<>>} : i \in 1..Len(list)}

\* the controls rebuildFacets rewrites: the field select keeps its value
\* when an option still carries it, the tag buttons are created afresh
\* without the active class
FacetsDom(d, list) ==
    [d EXCEPT !.fieldFilter = IF d.fieldFilter \in FacetFields(list)
                              THEN d.fieldFilter ELSE <<>>,
              !.tagButtons = FacetTags(list),
              !.activeButtons = {}]

ToLowerChar(c) == IF c = "B" THEN "b" ELSE c

\* String.prototype.toLowerCase
ToLower(s) == [i \in 1..Len(s) |-> ToLowerChar(s[i])]

\* String.prototype.includes
Includes(s, q) ==
    \E i \in 1..(Len(s) - Len(q) + 1) : SubSeq(s, i, i + Len(q) - 1) = q

\* the plain matching of applyFiltersAndRender, q already lower-cased
PlainMatch(b, q) ==
    \/ Includes(ToLower(OrText(b, "title", <<>>)), q)
    \/ Includes(ToLower(OrText(b, "author", <<>>)), q)
    \/ Includes(ToLower(OrText(b, "field", <<>>)), q)
    \/ \E t \in Range(OrList(b, "tags")) : Includes(ToLower(t), q)

\* state.fuse.search(query).map(r => r.item): the index answers over the
\* documents it was built with; of the library's approximate matching only
\* the exact containment in an indexed key is modelled
FuseMatch(b, q) ==
    \/ PlainMatch(b, ToLower(q))
    \/ Includes(ToLower(OrText(b, "description", <<>>)), ToLower(q))
    \/ Includes(ToLower(OrText(b, "filename", <<>>)), ToLower(q))

FuseSearch(f, q) == SelectSeq(f.docs, LAMBDA b : FuseMatch(b, q))

\* (a.addedAt || 0) - (b.addedAt || 0) is negative: Infinity - Infinity is
\* NaN, which is not
DateLess(a, b) ==
    LET x == OrNum(a, "addedAt", Num(0))
        y == OrNum(b, "addedAt", Num(0))
    IN  IF x = Infinity THEN FALSE
        ELSE IF y = Infinity THEN TRUE
        ELSE x.num < y.num

\* (x || 0) for sizeBytes in the comparators
SizeOrZero(b) ==
    IF Has(b, "sizeBytes") /\ IsFinite(b.sizeBytes) THEN b.sizeBytes.num ELSE 0

\* the comparator of list.sort returns a negative number for (a, b)
SortLess(sort, a, b) ==
    CASE sort = "title-desc"  -> TextLess(b.title, a.title)
      [] sort = "author"      -> TextLess(OrText(a, "author", <<>>), OrText(b, "author", <<>>))
      [] sort = "author-desc" -> TextLess(OrText(b, "author", <<>>), OrText(a, "author", <<>>))
      [] sort = "field"       -> TextLess(OrText(a, "field", <<>>), OrText(b, "field", <<>>))
      [] sort = "size"        -> SizeOrZero(a) < SizeOrZero(b)
      [] sort = "date"        -> DateLess(a, b)
      [] OTHER                -> TextLess(a.title, b.title)

RECURSIVE SortInsert(_, _, _)
SortInsert(sort, x, sorted) ==
    IF sorted = <<>> THEN <<x>>
    ELSE IF SortLess(sort, x, Head(sorted)) THEN <<x>> \o sorted
    ELSE <<Head(sorted)>> \o SortInsert(sort, x, Tail(sorted))

\* Array.prototype.sort with the comparator: a stable sort
RECURSIVE SortBooks(_, _)
SortBooks(sort, list) ==
    IF list = <<>> THEN <<>>
    ELSE SortInsert(sort, list[Len(list)],
                    SortBooks(sort, SubSeq(list, 1, Len(list) - 1)))

\* applyFilters keeping the documents that carry any of the active tags
applyFiltersAnyTag(d, list, f, active) ==
    LET query    == Trim(d.searchInput)
        searched == IF query = <<>> THEN list
                    ELSE IF f # None THEN FuseSearch(f[1], query)
                    ELSE SelectSeq(list, LAMBDA b : PlainMatch(b, ToLower(query)))
        byField  == IF d.fieldFilter = <<>> THEN searched
                    ELSE SelectSeq(searched,
                            LAMBDA b : Has(b, "field") /\ b.field = d.fieldFilter)
        byTags   == IF active = {} THEN byField
                    ELSE SelectSeq(byField,
                            LAMBDA b : active \cap Range(OrList(b, "tags")) # {})
    IN  SortBooks(d.sortSelect, byTags)

\* applyFiltersAndRender: state.filteredBooks after it
applyFilters(d, list, f, active) ==
    LET query    == Trim(d.searchInput)
        searched == IF query = <<>> THEN list
                    ELSE IF f # None THEN FuseSearch(f[1], query)
                    ELSE SelectSeq(list, LAMBDA b : PlainMatch(b, ToLower(query)))
        byField  == IF d.fieldFilter = <<>> THEN searched
                    ELSE SelectSeq(searched,
                            LAMBDA b : Has(b, "field") /\ b.field = d.fieldFilter)
        byTags   == IF active = {} THEN byField
                    ELSE SelectSeq(byField,
                            LAMBDA b : active \subseteq Range(OrList(b, "tags")))
    IN  SortBooks(d.sortSelect, byTags)

-----------------------------------------------------------------------------
(* Inputs: the manifests served and imported, the stored values found at
   page load, what uniqueId() and Date.now() return *)

pA == sBooks \o <<"/", "a", ".", "p", "d", "f">>
pB == <<"b", " ", "c", ".", "p", "d", "f">>

tAn == <<"a", "n">>
tCl == <<"c", "l">>

MB == 1048576

EntryFull ==
    [id |-> "a", title |-> <<"r", "u">>, author |-> <<"r">>,
     field |-> <<"a", "n", "a">>, tags |-> <<tAn, tCl>>,
     description |-> <<"d">>, path |-> pA, sizeBytes |-> Num(10 * MB),
     addedAt |-> Num(1000), metadataSource |-> "manifest"]

EntryBare == [path |-> pB]

EntryNoPath == [id |-> "n", title |-> <<"n", "o">>, sizeBytes |-> Num(5)]

\* an entry whose text reads "addedAt": 1e999
EntryOverflow == [id |-> "o", path |-> pB, addedAt |-> Infinity]

Entries == {EntryFull, EntryBare, EntryNoPath, EntryOverflow}

RECURSIVE SeqsUpTo(_, _)
SeqsUpTo(S, n) ==
    IF n = 0 THEN {<<>>}
    ELSE LET shorter == SeqsUpTo(S, n - 1)
         IN  shorter \cup {Append(m, e) : m \in {x \in shorter : Len(x) = n - 1}, e \in S}

\* the arrays served and imported: every array of complete and bare entries
\* up to the bound, two arrays with an entry that has no path, and one with
\* a number out of range
Manifests ==
    SeqsUpTo({EntryFull, EntryBare}, MaxManifest)
        \cup {<<EntryNoPath>>, <<EntryFull, EntryNoPath>>, <<EntryOverflow>>}

\* what the fetch of books.json and the reading of its body come to
FetchFailed   == [kind |-> "failed"]     \* fetch rejects
FetchStatus   == [kind |-> "status"]     \* res.ok is false
FetchBadBody  == [kind |-> "badbody"]    \* res.json() rejects
FetchNonArray == [kind |-> "nonarray"]   \* the body is JSON, not an array
FetchArray(m) == [kind |-> "array", val |-> m]

Fetches ==
    {FetchFailed, FetchStatus, FetchBadBody, FetchNonArray}
        \cup {FetchArray(m) : m \in Manifests}

\* the text of a file chosen for import
FileGarbage  == [kind |-> "garbage"]     \* JSON.parse throws
FileNonArray == [kind |-> "nonarray"]    \* JSON, not an array
FileArray(m) == [kind |-> "array", val |-> m]

Files == {FileGarbage, FileNonArray} \cup {FileArray(m) : m \in Manifests}

\* what the calls of uniqueId() during one load return, by position: the
\* values differ within a load and from one load to another
FreshIds == {<<"u1", "u2", "u3", "u4">>, <<"v1", "v2", "v3", "v4">>}
Times    == {1700}

\* a record as an earlier session stored it: sizeBytes was NaN and is null,
\* and no provenance was written
StoredBook ==
    [id |-> "s", title |-> <<"s", "t">>, author |-> <<>>, field |-> <<>>,
     tags |-> <<tAn>>, description |-> <<>>, path |-> pA,
     filename |-> <<"a", ".", "p", "d", "f">>, sizeBytes |-> JSNull,
     addedAt |-> Num(900)]

\* a record as scanBooks stored it
StoredFull ==
    [id |-> "a", title |-> <<"r", "u">>, author |-> <<"r">>,
     field |-> <<"a", "n", "a">>, tags |-> <<tAn, tCl>>,
     description |-> <<"d">>, path |-> pA,
     filename |-> <<"a", ".", "p", "d", "f">>, sizeBytes |-> Num(10 * MB),
     addedAt |-> Num(1000), metadataSource |-> "manifest"]

\* what the page finds in localStorage when it is used from day to day: nothing
\* on the first visit, later what an earlier session wrote
Stored ==
    {[config |-> LsAbsent, books |-> LsAbsent],
     [config |-> LsJson([fuzzySearch |-> FALSE]), books |-> LsJson(<<StoredBook>>)]}

\* every kind of value the two keys can hold, damaged ones included
AnyStoredConfigs ==
    {LsAbsent, LsEmpty, LsGarbage, LsScalar,
     LsJson([fuzzySearch |-> FALSE]),
     LsJson([maxViewerSizeMB |-> 50, searchThreshold |-> 25]),
     LsJson([rootFolder |-> <<"l">>]),
     LsJson([rootFolder |-> <<"l">>, fuzzySearch |-> FALSE,
             searchThreshold |-> 100, maxViewerSizeMB |-> 1])}

AnyStoredCatalogs ==
    {LsAbsent, LsEmpty, LsGarbage, LsJson(<<>>), LsJson(<<StoredBook>>),
     LsJson(<<StoredFull, StoredBook>>), LsJson(<<JSNull>>),
     LsJson(<<StoredFull, JSNull>>)}

-----------------------------------------------------------------------------
(* The page before DOMContentLoaded *)

PdfDefaults ==
    [url |-> None, pdfDoc |-> None, pageNum |-> 1, pageCount |-> 1,
     scale |-> 10, title |-> <<>>]

DomInit ==
    [searchInput |-> <<>>, fieldFilter |-> <<>>, sortSelect |-> "title",
     tagButtons |-> {}, activeButtons |-> {}, loading |-> FALSE,
     pdfModal |-> FALSE, editModal |-> FALSE, configModal |-> FALSE,
     modalTitle |-> <<>>, downloadTarget |-> None, canvas |-> None,
     pageInfo |-> None, zoomLevel |-> None, clearSearchBtn |-> FALSE]

\* no time has passed, no timer is set, nothing has been typed
SearchInit == [now |-> 0, due |-> {}, typed |-> <<>>, events |-> 0, runs |-> 0]

NoAlert == ""

Step(op, arg, alert, threw) ==
    [op |-> op, arg |-> arg, alert |-> alert, threw |-> threw]

InitWith(stored) ==
    /\ ls \in stored
    /\ booted = "no"
    /\ config = DEFAULT_CONFIG
    /\ books = <<>>
    /\ filteredBooks = <<>>
    /\ activeTags = {}
    /\ fields = {}
    /\ tags = {}
    /\ fuse = None
    /\ pdf = PdfDefaults
    /\ renders = <<>>
    /\ sessions = {}
    /\ editingId = None
    /\ dom = DomInit
    /\ scans = 0
    /\ reads = 0
    /\ download = <<>>
    /\ opened = None
    /\ editLog = <<>>
    /\ search = SearchInit
    /\ last = Step("load", 0, NoAlert, FALSE)

Init == InitWith(Stored)

\* the provenance of every position of a catalog just loaded, no save yet
FreshLog(list) ==
    [i \in 1..Len(list) |->
        [base |-> OrStr(list[i], "metadataSource", "manifest"), saves |-> 0]]

\* initFuse, rebuildFacets and applyFiltersAndRender over a new catalog
Refresh(c, list) ==
    /\ fuse' = initFuse(c, list)
    /\ fields' = FacetFields(list)
    /\ tags' = FacetTags(list)

-----------------------------------------------------------------------------
(* boot *)

Boot ==
    /\ booted = "no"
    /\ LET c == loadConfig(ls.config, config)
           b == loadBooks(ls.books, books)
       IN  /\ config' = c
           /\ books' = b
           /\ IF FacetsThrow(b)
              THEN \* new Fuse(...) is handed the null entry, then
                   \* rebuildFacets throws: bindEvents is never reached
                   /\ booted' = "crashed"
                   /\ fuse' \in {None, initFuse(c, b)}
                   /\ last' = Step("boot", 0, NoAlert, TRUE)
                   /\ UNCHANGED <<fields, tags, dom, filteredBooks, editLog>>
              ELSE /\ booted' = "done"
                   /\ Refresh(c, b)
                   /\ dom' = FacetsDom(dom, b)
                   /\ filteredBooks' = applyFilters(dom', b, fuse', activeTags)
                   /\ editLog' = FreshLog(b)
                   /\ last' = Step("boot", 0, NoAlert, FALSE)
    /\ UNCHANGED <<ls, activeTags, viewer, editingId, scans, reads, download,
                   search>>

-----------------------------------------------------------------------------
(* scanBooks *)

MsgNoManifest == "No books.json manifest found. Please create or import one."

\* NoManifest without the test for the empty array
NoManifestUnlessNull(fetched) ==
    fetched.kind # "array"

\* tryLoadManifest returns null, or scanBooks finds the array empty
NoManifest(fetched) ==
    IF fetched.kind = "array" THEN Len(fetched.val) = 0 ELSE TRUE

\* ReplaceCatalog without saveBooks
ReplaceCatalogUnsaved(list) ==
    /\ books' = list
    /\ ls' = ls
    /\ Refresh(config, list)
    /\ editLog' = FreshLog(list)

\* the replacement of the catalog and everything scanBooks and
\* importBooksJson do after it
ReplaceCatalog(list) ==
    /\ books' = list
    /\ ls' = [ls EXCEPT !.books = saveBooks(list)]
    /\ Refresh(config, list)
    /\ editLog' = FreshLog(list)

\* the click on #scanBtn: scanBooks up to its await, with fewer than most
\* scans pending
ScanStartUpTo(most) ==
    /\ booted = "done"
    /\ scans < most
    /\ scans' = scans + 1
    /\ dom' = [dom EXCEPT !.loading = TRUE]
    /\ last' = Step("scanStart", 0, NoAlert, FALSE)
    /\ UNCHANGED <<ls, booted, config, books, filteredBooks, activeTags,
                   fields, tags, fuse, viewer, editingId, reads, download,
                   search, editLog>>

ScanStart == ScanStartUpTo(MaxScans)

\* the fetch settled without a manifest
ScanNoManifest(fetched) ==
    /\ NoManifest(fetched)
    /\ dom' = [dom EXCEPT !.loading = FALSE]
    /\ last' = Step("scan", fetched, MsgNoManifest, FALSE)
    /\ UNCHANGED <<ls, config, books, filteredBooks, activeTags, fields, tags,
                   fuse, editLog>>

\* manifest.map throws on an entry: the rest of scanBooks does not run
ScanThrows(fetched) ==
    /\ ~NoManifest(fetched)
    /\ ManifestThrows(fetched.val)
    /\ last' = Step("scan", fetched, NoAlert, TRUE)
    /\ UNCHANGED <<ls, config, books, filteredBooks, activeTags, fields, tags,
                   fuse, dom, editLog>>

\* the manifest replaces the catalog
ScanReplace(fetched) ==
    /\ ~NoManifest(fetched)
    /\ ~ManifestThrows(fetched.val)
    /\ \E uids \in FreshIds, now \in Times :
          LET list == NormalizeAll(fetched.val, uids, now, "manifest")
              d    == FacetsDom(dom, list)
          IN  /\ ReplaceCatalog(list)
              /\ filteredBooks' = applyFilters(d, list, fuse', activeTags)
              /\ dom' = [d EXCEPT !.loading = FALSE]
    /\ last' = Step("scan", fetched, NoAlert, FALSE)
    /\ UNCHANGED <<config, activeTags>>

\* scanBooks from the point where tryLoadManifest has returned, the fetch
\* having come to one of fetches
ScanSettleOf(fetches) ==
    /\ scans > 0
    /\ scans' = scans - 1
    /\ \E fetched \in fetches :
          \/ ScanNoManifest(fetched)
          \/ ScanThrows(fetched)
          \/ ScanReplace(fetched)
    /\ UNCHANGED <<booted, viewer, editingId, reads, download, search>>

ScanSettle == ScanSettleOf(Fetches)

-----------------------------------------------------------------------------
(* importBooksJson *)

MsgImported == "Imported books.json successfully. Remember to commit this file to your repository root for auto-scan."

MsgImportFailed == "Failed to import books.json: "

\* err.message of what JSON.parse and filenameFromPath throw
MsgSyntaxError == "<SyntaxError>"
MsgTypeError   == "<TypeError>"

\* the text of every file the user can choose: a file of the inputs, or
\* a books.json downloaded before
ChoosableFiles ==
    Files \cup {FileArray(download[i]) : i \in 1..Len(download)}

\* a file is chosen in #importFileInput: importBooksJson up to readAsText
ImportStart ==
    /\ booted = "done"
    /\ reads < MaxReads
    /\ reads' = reads + 1
    /\ last' = Step("importStart", 0, NoAlert, FALSE)
    /\ UNCHANGED <<ls, booted, config, books, filteredBooks, activeTags,
                   fields, tags, fuse, viewer, editingId, dom, scans, download,
                   search, editLog>>

\* what the try block of reader.onload throws, "" when it completes
ImportError(file) ==
    IF file.kind = "garbage" THEN MsgSyntaxError
    ELSE IF file.kind = "nonarray" THEN "Invalid JSON"
    ELSE IF ManifestThrows(file.val) THEN MsgTypeError
    ELSE ""

\* ImportFails with a catch block that swallows the error
ImportFailsSilently(file) ==
    /\ ImportError(file) # ""
    /\ last' = Step("import", file, NoAlert, FALSE)
    /\ UNCHANGED <<ls, config, books, filteredBooks, activeTags, fields, tags,
                   fuse, dom, editLog>>

\* the catch block
ImportFails(file) ==
    /\ ImportError(file) # ""
    /\ last' = Step("import", file, MsgImportFailed \o ImportError(file), FALSE)
    /\ UNCHANGED <<ls, config, books, filteredBooks, activeTags, fields, tags,
                   fuse, dom, editLog>>

ImportReplace(file) ==
    /\ ImportError(file) = ""
    /\ \E uids \in FreshIds, now \in Times :
          LET list == NormalizeAll(file.val, uids, now, "import")
          IN  /\ ReplaceCatalog(list)
              /\ dom' = FacetsDom(dom, list)
              /\ filteredBooks' = applyFilters(dom', list, fuse', activeTags)
    /\ last' = Step("import", file, MsgImported, FALSE)
    /\ UNCHANGED <<config, activeTags>>

\* reader.onload, with the text the reader delivers, the file being one
\* of files
ImportLoadOf(files) ==
    /\ reads > 0
    /\ reads' = reads - 1
    /\ \E file \in files :
          \/ ImportFails(file)
          \/ ImportReplace(file)
    /\ UNCHANGED <<booted, viewer, editingId, scans, download, search>>

ImportLoad == ImportLoadOf(ChoosableFiles)

-----------------------------------------------------------------------------
(* The metadata editor *)

\* The five fields of the form are controls the user edits: openEditModal
\* fills them, and what they hold at the submit is what the user left there
TypedForms ==
    {[title |-> <<" ", "x", " ">>, author |-> <<"y">>, field |-> <<"a", "l">>,
      tags |-> <<" ", ",", "a", "l", ",", " ", "c", "l", " ">>,
      description |-> <<>>]}

\* openEditModal(book): the click on the edit button of a rendered card
OpenEdit ==
    /\ booted = "done"
    /\ \E i \in 1..Len(filteredBooks) :
          LET book == filteredBooks[i]
          IN  /\ editingId' = Some(book.id)
              /\ dom' = [dom EXCEPT !.editModal = TRUE]
              /\ last' = Step("openEdit", i, NoAlert, FALSE)
    /\ UNCHANGED <<ls, booted, config, books, filteredBooks, activeTags,
                   fields, tags, fuse, viewer, scans, reads, download, search,
                   editLog>>

\* closeEditModal: the close button and the cancel button of the editor
CloseEdit ==
    /\ booted = "done"
    /\ dom.editModal
    /\ editingId' = None
    /\ dom' = [dom EXCEPT !.editModal = FALSE]
    /\ last' = Step("closeEdit", 0, NoAlert, FALSE)
    /\ UNCHANGED <<ls, booted, config, books, filteredBooks, activeTags,
                   fields, tags, fuse, viewer, scans, reads, download, search,
                   editLog>>

\* FindIndex falling back to the first record when none carries the id
FindIndexOrFirst(list, target) ==
    LET hits == {i \in 1..Len(list) :
                    target # None /\ Has(list[i], "id") /\ list[i].id = target[1]}
    IN  IF hits = {} THEN (IF Len(list) > 0 THEN 1 ELSE 0)
        ELSE CHOOSE i \in hits : \A j \in hits : i <= j

\* state.books.findIndex(b => b.id === editingId), 0 standing for -1
FindIndex(list, target) ==
    LET hits == {i \in 1..Len(list) :
                    target # None /\ Has(list[i], "id") /\ list[i].id = target[1]}
    IN  IF hits = {} THEN 0 ELSE CHOOSE i \in hits : \A j \in hits : i <= j

\* value.split(',').map(s => s.trim()).filter(Boolean)
ParseTags(text) ==
    SelectSeq([i \in 1..Len(Split(text, ",")) |-> Trim(Split(text, ",")[i])],
              LAMBDA t : t # <<>>)

\* EditedBook with a provenance that is set, not appended to
EditedBookMarkedOnce(book, form) ==
    Spread(book,
           [title |-> Trim(form.title),
            author |-> Trim(form.author),
            field |-> Trim(form.field),
            tags |-> ParseTags(form.tags),
            description |-> Trim(form.description),
            metadataSource |-> "manifest+manual"])

\* the record the submit handler writes back
EditedBook(book, form) ==
    Spread(book,
           [title |-> Trim(form.title),
            author |-> Trim(form.author),
            field |-> Trim(form.field),
            tags |-> ParseTags(form.tags),
            description |-> Trim(form.description),
            metadataSource |-> OrStr(book, "metadataSource", "manifest") \o "+manual"])

\* the submit of #editForm when no record carries editingId
SubmitMissing(form) ==
    /\ FindIndex(books, editingId) = 0
    /\ last' = Step("editSubmit", form, NoAlert, FALSE)
    /\ UNCHANGED <<ls, books, filteredBooks, fields, tags, fuse, editingId, dom,
                   editLog>>

RECURSIVE SumSaves(_)
SumSaves(log) ==
    IF log = <<>> THEN 0 ELSE Head(log).saves + SumSaves(Tail(log))

\* SubmitSave without applyFiltersAndRender
SubmitSaveStale(form) ==
    LET idx == FindIndex(books, editingId)
    IN  /\ idx # 0
        /\ SumSaves(editLog) < MaxEdits
        /\ LET list == [books EXCEPT ![idx] = EditedBook(books[idx], form)]
           IN  /\ books' = list
               /\ ls' = [ls EXCEPT !.books = saveBooks(list)]
               /\ Refresh(config, list)
               /\ filteredBooks' = filteredBooks
               /\ dom' = [FacetsDom(dom, list) EXCEPT !.editModal = FALSE]
        /\ editingId' = None
        /\ editLog' = [editLog EXCEPT ![idx].saves = @ + 1]
        /\ last' = Step("editSubmit", form, NoAlert, FALSE)

\* the submit of #editForm that saves
SubmitSave(form) ==
    LET idx == FindIndex(books, editingId)
    IN  /\ idx # 0
        /\ SumSaves(editLog) < MaxEdits
        /\ LET list == [books EXCEPT ![idx] = EditedBook(books[idx], form)]
               d    == FacetsDom(dom, list)
           IN  /\ books' = list
               /\ ls' = [ls EXCEPT !.books = saveBooks(list)]
               /\ Refresh(config, list)
               /\ filteredBooks' = applyFilters(d, list, fuse', activeTags)
               /\ dom' = [d EXCEPT !.editModal = FALSE]
        /\ editingId' = None
        /\ editLog' = [editLog EXCEPT ![idx].saves = @ + 1]
        /\ last' = Step("editSubmit", form, NoAlert, FALSE)

SubmitEdit ==
    /\ booted = "done"
    /\ dom.editModal
    /\ \E form \in TypedForms :
          \/ SubmitMissing(form)
          \/ SubmitSave(form)
    /\ UNCHANGED <<booted, config, activeTags, viewer, scans, reads, download,
                   search>>

-----------------------------------------------------------------------------
(* The catalog operations *)

Next ==
    \/ Boot
    \/ ScanStart
    \/ ScanSettle
    \/ ImportStart
    \/ ImportLoad
    \/ OpenEdit
    \/ CloseEdit
    \/ SubmitEdit

Spec == Init /\ [][Next]_vars

\* the page load alone, over every kind of stored value
InitBoot ==
    InitWith({[config |-> c, books |-> b] :
                c \in AnyStoredConfigs, b \in AnyStoredCatalogs})

NextBoot == Boot

SpecBoot == InitBoot /\ [][NextBoot]_vars

TypeOK ==
    /\ booted \in {"no", "done", "crashed"}
    /\ scans \in 0..MaxScans + 1
    /\ reads \in 0..MaxReads

-----------------------------------------------------------------------------
(* Properties of scan and import *)

BookFields ==
    {"id", "title", "author", "field", "tags", "description", "path",
     "filename", "sizeBytes", "addedAt", "metadataSource"}

\* fn is the last segment of the path p
IsLastSegment(fn, p) ==
    /\ "/" \notin Range(fn)
    /\ Len(fn) <= Len(p)
    /\ SubSeq(p, Len(p) - Len(fn) + 1, Len(p)) = fn
    /\ Len(fn) < Len(p) => p[Len(p) - Len(fn)] = "/"

\* b is the normalized record of the manifest entry e, src being the
\* provenance given to an entry that names none
IsRecordOf(b, e, src) ==
    /\ DOMAIN b = BookFields
    /\ b.id # ""
    /\ (Has(e, "id") /\ e.id # "") => b.id = e.id
    /\ b.title = (IF Has(e, "title") THEN e.title ELSE <<>>)
    /\ b.author = (IF Has(e, "author") THEN e.author ELSE <<>>)
    /\ b.field = (IF Has(e, "field") THEN e.field ELSE <<>>)
    /\ b.tags = (IF Has(e, "tags") THEN e.tags ELSE <<>>)
    /\ b.description = (IF Has(e, "description") THEN e.description ELSE <<>>)
    /\ b.path = e.path
    /\ IsLastSegment(b.filename, e.path)
    /\ b.sizeBytes = (IF Has(e, "sizeBytes") /\ Has(e.sizeBytes, "num")
                      THEN e.sizeBytes ELSE NaN)
    /\ b.addedAt \notin {Num(0), NaN, JSNull}
    /\ (Has(e, "addedAt") /\ e.addedAt \notin {Num(0), NaN, JSNull})
          => b.addedAt = e.addedAt
    /\ b.metadataSource =
          (IF Has(e, "metadataSource") /\ e.metadataSource # ""
           THEN e.metadataSource ELSE src)

\* the step that ran last was a scan that completed, or an import that
\* reported success
ScanSucceeded   == last.op = "scan" /\ ~last.threw /\ last.alert = NoAlert
ImportSucceeded == last.op = "import" /\ last.alert = MsgImported

LoadedSource == IF last.op = "scan" THEN "manifest" ELSE "import"

\* C1: after a successful scan or import of a non-empty manifest M the
\* catalog holds exactly one normalized record per entry of M, in the order
\* of M, whatever the catalog held before.
C1_ReplaceNeverMerge ==
    [][(ScanSucceeded' \/ ImportSucceeded') /\ Len(last'.arg.val) > 0
        => /\ Len(books') = Len(last'.arg.val)
           /\ \A i \in 1..Len(books') :
                 IsRecordOf(books'[i], last'.arg.val[i], LoadedSource')]_vars

\* a scan replaced a catalog whose record "s" was being edited: two records
\* in the order of the manifest, the bare entry first, and no record "s"
C1_Witness ==
    /\ ScanSucceeded
    /\ last.arg.val = <<EntryBare, EntryFull>>
    /\ editingId = Some("s")
    /\ Len(books) = 2

\* the fetch gave no manifest: it failed, the status was no success, the
\* body was no JSON array, or the array was empty
FetchedNothing(f) ==
    \/ f.kind \in {"failed", "status", "badbody", "nonarray"}
    \/ f = FetchArray(<<>>)

\* C2: a scan that obtains no manifest leaves the catalog, the persisted
\* catalog, the search index and the facet sets as they were, in the step
\* that triggers it and in the step that ends it.
C2_NoManifestKeepsCatalog ==
    [][(last'.op = "scanStart" \/ (last'.op = "scan" /\ FetchedNothing(last'.arg)))
        => /\ books' = books
           /\ ls'.books = ls.books
           /\ fuse' = fuse
           /\ fields' = fields
           /\ tags' = tags]_vars

\* a scan found an empty array while the catalog held two indexed records
C2_Witness ==
    /\ last.op = "scan"
    /\ last.arg = FetchArray(<<>>)
    /\ Len(books) = 2
    /\ fuse # None
    /\ tags # {}

\* C3: an import of a file that is no valid JSON, or JSON that is no array,
\* reports a failure and leaves the catalog and the persisted catalog as
\* they were.
C3_InvalidImportKeepsCatalog ==
    [][(last'.op = "import" /\ last'.arg.kind \in {"garbage", "nonarray"})
        => /\ last'.alert \in {MsgImportFailed \o MsgSyntaxError,
                               MsgImportFailed \o "Invalid JSON"}
           /\ books' = books
           /\ ls'.books = ls.books]_vars

\* an import of a file that is no array was refused while the catalog held
\* a record
C3_Witness ==
    /\ last.op = "import"
    /\ last.arg.kind = "nonarray"
    /\ last.alert = MsgImportFailed \o "Invalid JSON"
    /\ Len(books) > 0

LacksPath(m) == \E i \in 1..Len(m) : ~Has(m[i], "path")

\* C4: a scan or an import of a manifest in which some entry has no path
\* still replaces the catalog with one record per entry and completes:
\* nothing is thrown and no failure is reported.
C4_MissingPathAccepted ==
    [][(/\ last'.op \in {"scan", "import"}
        /\ last'.arg.kind = "array"
        /\ LacksPath(last'.arg.val))
        => /\ Len(books') = Len(last'.arg.val)
           /\ ~last'.threw
           /\ last'.alert \in {NoAlert, MsgImported}]_vars

-----------------------------------------------------------------------------
(* Properties of the metadata editor *)

RECURSIVE Manuals(_)
Manuals(k) == IF k = 0 THEN "" ELSE "+manual" \o Manuals(k - 1)

\* C7: the provenance of a record that was loaded with provenance s
\* ("manifest" when it had none) and saved k times by the editor is s
\* followed by exactly k copies of "+manual".
C7_ManualSuffixAccumulates ==
    booted = "done" =>
        \A i \in 1..Len(books) :
            /\ OrStr(books[i], "metadataSource", "manifest")
                  = editLog[i].base \o Manuals(editLog[i].saves)
            /\ editLog[i].saves > 0 => Has(books[i], "metadataSource")

\* a record that was stored without provenance has been saved twice
C7_Witness ==
    /\ booted = "done"
    /\ \E i \in 1..Len(books) :
          /\ editLog[i].saves = 2
          /\ books[i].id = "s"
          /\ books[i].metadataSource = "manifest+manual+manual"

NoRecordHas(list, target) ==
    \A i \in 1..Len(list) :
        ~(target # None /\ Has(list[i], "id") /\ list[i].id = target[1])

\* C8: a submit of the edit form while no record of the catalog carries the
\* remembered id changes neither the catalog nor the persisted catalog, and
\* surfaces no error.
C8_MissingTargetIgnored ==
    [][(last'.op = "editSubmit" /\ NoRecordHas(books, editingId))
        => /\ books' = books
           /\ ls'.books = ls.books
           /\ last'.alert = NoAlert
           /\ ~last'.threw]_vars

\* the form was submitted for record "s" after a load had replaced the
\* catalog with records that do not carry that id
C8_Witness ==
    /\ last.op = "editSubmit"
    /\ editingId = Some("s")
    /\ Len(books) > 0
    /\ NoRecordHas(books, editingId)

-----------------------------------------------------------------------------
(* Properties of the page load *)

Unreadable(raw) == raw.kind \in {"absent", "empty", "garbage"}

\* C10: whatever the two keys hold, boot runs through bindEvents; a catalog
\* key that is absent or unparseable gives the empty catalog; a config key
\* that is absent or no object gives the defaults, and every field the
\* stored object lacks has its default.
C10_BootNeverFatal ==
    booted # "no" =>
        /\ booted = "done"
        /\ Unreadable(ls.books) => books = <<>>
        /\ (Unreadable(ls.config) \/ ls.config.kind = "scalar")
              => config = DEFAULT_CONFIG
        /\ \A f \in DOMAIN DEFAULT_CONFIG :
              /\ Has(config, f)
              /\ (ls.config.kind = "json" /\ ~Has(ls.config.val, f))
                    => config[f] = DEFAULT_CONFIG[f]

-----------------------------------------------------------------------------
(* The configuration panel *)

\* a number a parser returns
Min(a, b) == IF a < b THEN a ELSE b
Max(a, b) == IF a > b THEN a ELSE b

\* the value of the leading digits of s, and how many there are
RECURSIVE DigitsValue(_, _)
DigitsValue(s, acc) ==
    IF s # <<>> /\ IsDigit(Head(s))
    THEN DigitsValue(Tail(s), 10 * acc + DigitVal(Head(s)))
    ELSE acc

RECURSIVE DigitsCount(_)
DigitsCount(s) ==
    IF s # <<>> /\ IsDigit(Head(s)) THEN 1 + DigitsCount(Tail(s)) ELSE 0

Drop(s, n) == SubSeq(s, n + 1, Len(s))

\* parseInt(text, 10): leading blanks, a sign, then digits up to the first
\* character that is none; NaN without a digit
ParseInt(text) ==
    LET t    == TrimStart(text)
        neg  == t # <<>> /\ Head(t) = "-"
        body == IF t # <<>> /\ Head(t) \in {"-", "+"} THEN Tail(t) ELSE t
    IN  IF DigitsCount(body) = 0 THEN NaN
        ELSE Num(IF neg THEN 0 - DigitsValue(body, 0) ELSE DigitsValue(body, 0))

\* parseFloat(text) in hundredths: leading blanks, a sign, digits, a point
\* and digits, of which the first two count; NaN without a digit
ParseFloat(text) ==
    LET t     == TrimStart(text)
        neg   == t # <<>> /\ Head(t) = "-"
        body  == IF t # <<>> /\ Head(t) \in {"-", "+"} THEN Tail(t) ELSE t
        nInt  == DigitsCount(body)
        rest  == Drop(body, nInt)
        frac  == IF rest # <<>> /\ Head(rest) = "." THEN Tail(rest) ELSE <<>>
        nFrac == DigitsCount(frac)
        f1    == IF nFrac >= 1 THEN DigitVal(frac[1]) ELSE 0
        f2    == IF nFrac >= 2 THEN DigitVal(frac[2]) ELSE 0
        abs   == 100 * DigitsValue(body, 0) + 10 * f1 + f2
    IN  IF nInt = 0 /\ nFrac = 0 THEN NaN
        ELSE Num(IF neg THEN 0 - abs ELSE abs)

\* x || d for a parsed number: NaN and 0 give d
NumOr(v, d) == IF Has(v, "num") /\ v.num # 0 THEN v.num ELSE d

\* The fields of the panel are controls the user edits: openConfigModal
\* fills them from state.config, and what they hold at the save is what
\* the user left there
ConfigForms ==
    {[rootFolder |-> <<" ", "l", " ">>, fuzzySearch |-> FALSE,
      searchThreshold |-> <<"0", ".", "2", "5">>, maxViewerSize |-> <<"0">>],
     [rootFolder |-> <<>>, fuzzySearch |-> TRUE,
      searchThreshold |-> <<"0">>, maxViewerSize |-> <<"9", "9", "9", "9">>],
     [rootFolder |-> sBooks, fuzzySearch |-> TRUE,
      searchThreshold |-> <<"0", ".", "4">>, maxViewerSize |-> <<"1", "0">>],
     [rootFolder |-> sBooks, fuzzySearch |-> TRUE,
      searchThreshold |-> <<"x">>, maxViewerSize |-> <<"x">>],
     [rootFolder |-> sBooks, fuzzySearch |-> FALSE,
      searchThreshold |-> <<"1">>, maxViewerSize |-> <<"-", "3">>],
     [rootFolder |-> sBooks, fuzzySearch |-> TRUE,
      searchThreshold |-> <<>>, maxViewerSize |-> <<"1", "2", "p", "x">>],
     [rootFolder |-> sBooks, fuzzySearch |-> TRUE,
      searchThreshold |-> <<"0", ".", "4">>, maxViewerSize |-> <<"1">>]}

\* openConfigModal: the click on #configBtn
OpenConfig ==
    /\ booted = "done"
    /\ dom' = [dom EXCEPT !.configModal = TRUE]
    /\ last' = Step("openConfig", 0, NoAlert, FALSE)
    /\ UNCHANGED <<ls, booted, config, books, filteredBooks, activeTags,
                   fields, tags, fuse, viewer, editingId, scans, reads,
                   download, search, editLog>>

\* closeConfigModal: the close button of the panel
CloseConfig ==
    /\ booted = "done"
    /\ dom.configModal
    /\ dom' = [dom EXCEPT !.configModal = FALSE]
    /\ last' = Step("closeConfig", 0, NoAlert, FALSE)
    /\ UNCHANGED <<ls, booted, config, books, filteredBooks, activeTags,
                   fields, tags, fuse, viewer, editingId, scans, reads,
                   download, search, editLog>>

\* state.config after the four assignments of the save handler
SavedConfig(c, form) ==
    [c EXCEPT
        !.rootFolder = IF Trim(form.rootFolder) = <<>> THEN sBooks
                       ELSE Trim(form.rootFolder),
        !.fuzzySearch = form.fuzzySearch,
        !.searchThreshold = NumOr(ParseFloat(form.searchThreshold), 40),
        !.maxViewerSizeMB =
            Max(1, Min(50, NumOr(ParseInt(form.maxViewerSize), 10)))]

\* the click on #saveConfigBtn
\* SaveConfigOf without initFuse
SaveConfigKeepingIndex(forms) ==
    /\ booted = "done"
    /\ dom.configModal
    /\ \E form \in forms :
          /\ config' = SavedConfig(config, form)
          /\ last' = Step("saveConfig", form, NoAlert, FALSE)
    /\ ls' = [ls EXCEPT !.config = saveConfig(config')]
    /\ fuse' = fuse
    /\ dom' = [dom EXCEPT !.configModal = FALSE]
    /\ UNCHANGED <<booted, books, filteredBooks, activeTags, fields, tags,
                   viewer, editingId, scans, reads, download, search, editLog>>

\* the click on #saveConfigBtn, the panel holding one of forms
SaveConfigOf(forms) ==
    /\ booted = "done"
    /\ dom.configModal
    /\ \E form \in forms :
          /\ config' = SavedConfig(config, form)
          /\ last' = Step("saveConfig", form, NoAlert, FALSE)
    /\ ls' = [ls EXCEPT !.config = saveConfig(config')]
    /\ fuse' = initFuse(config', books)
    /\ dom' = [dom EXCEPT !.configModal = FALSE]
    /\ UNCHANGED <<booted, books, filteredBooks, activeTags, fields, tags,
                   viewer, editingId, scans, reads, download, search, editLog>>

SaveConfig == SaveConfigOf(ConfigForms)

\* the panel over what the page finds stored
InitConfig ==
    InitWith({[config |-> c, books |-> b] :
                c \in AnyStoredConfigs,
                b \in {LsAbsent, LsJson(<<StoredBook>>),
                       LsJson(<<StoredFull, StoredBook>>)}})

NextConfig ==
    \/ Boot
    \/ OpenConfig
    \/ CloseConfig
    \/ SaveConfig

SpecConfig == InitConfig /\ [][NextConfig]_vars

-----------------------------------------------------------------------------
(* The inline viewer *)

\* the comparison with the boundary left out
SizeMBAtMostStrict(bytes, mb) ==
    bytes \div MB < mb

\* sizeMB <= maxViewerSizeMB: division by a power of two is exact, so the
\* quotient is at most mb when its whole part is below mb, or equal to mb
\* with nothing left over
SizeMBAtMost(bytes, mb) ==
    \/ bytes \div MB < mb
    \/ bytes \div MB = mb /\ bytes % MB = 0

\* allowInline of openPdf
AllowInline(book, c) ==
    IF Has(book, "sizeBytes") /\ IsFinite(book.sizeBytes)
    THEN SizeMBAtMost(book.sizeBytes.num, c.maxViewerSizeMB)
    ELSE TRUE

\* pdfDoc.numPages of the document behind a locator
NumPages(url) ==
    IF url # <<>> /\ IsDigit(Head(url)) THEN 1 + (DigitVal(Head(url)) % 3) ELSE 3

\* A suspended call of renderPdfPage: at "doc" it awaits getDocument(doc),
\* at "page" getPage(num) of doc, at "render" the drawing of that page at
\* scale.  The assignment state.pdf.pdfDoc = await ... writes into the object
\* state.pdf referred to when the call reached the await: stale says that
\* state.pdf has been replaced by another object since.
RenderTask(at, doc, num, scale, stale) ==
    [at |-> at, doc |-> doc, num |-> num, scale |-> scale, stale |-> stale]

\* state.pdf = { ... }: the calls awaiting a document keep the old object
Orphaned(rs) ==
    [i \in 1..Len(rs) |->
        IF rs[i].at = "doc" THEN [rs[i] EXCEPT !.stale = TRUE] ELSE rs[i]]

RemoveAt(list, i) == SubSeq(list, 1, i - 1) \o SubSeq(list, i + 1, Len(list))

\* renderPdfPage up to its first await on pdf.js, for the viewer state p
StartRender(p) ==
    IF p.pdfDoc = None
    THEN RenderTask("doc", p.url[1], 0, 0, FALSE)
    ELSE RenderTask("page", p.pdfDoc[1], p.pageNum, 0, FALSE)

\* openPdf(book) for a document over the threshold
ViewExternal(book) ==
    /\ ~AllowInline(book, config)
    /\ opened' = Some(EncodeURI(book.path))
    /\ UNCHANGED <<pdf, renders, sessions, dom>>

\* openPdf(book) for a document the viewer takes
ViewInline(book) ==
    /\ AllowInline(book, config)
    /\ Len(renders) < MaxRenders
    /\ pdf' = [pdf EXCEPT !.url = Some(EncodeURI(book.path)), !.pageNum = 1,
                          !.scale = 10, !.title = book.title]
    /\ dom' = [dom EXCEPT !.modalTitle = book.title,
                          !.downloadTarget = Some(EncodeURI(book.path)),
                          !.pdfModal = TRUE]
    /\ renders' = Append(Orphaned(renders), StartRender(pdf'))
    /\ UNCHANGED <<sessions, opened>>

\* the click on the view button of a rendered card
ViewClick ==
    /\ booted = "done"
    /\ \E i \in 1..Len(filteredBooks) :
          /\ \/ ViewExternal(filteredBooks[i])
             \/ ViewInline(filteredBooks[i])
          /\ last' = Step("view", filteredBooks[i], NoAlert, FALSE)
    /\ UNCHANGED <<ls, booted, config, books, filteredBooks, activeTags,
                   fields, tags, fuse, editingId, scans, reads, download,
                   search, editLog>>

\* getDocument(url) resolves and renderPdfPage goes on to getPage
DocLoaded ==
    /\ \E i \in 1..Len(renders) :
          LET r   == renders[i]
              p1  == IF r.stale THEN pdf ELSE [pdf EXCEPT !.pdfDoc = Some(r.doc)]
          IN  /\ r.at = "doc"
              /\ sessions' = sessions \cup {r.doc}
              /\ IF p1.pdfDoc = None
                 THEN \* state.pdf.pdfDoc.numPages throws
                      /\ pdf' = p1
                      /\ renders' = RemoveAt(renders, i)
                      /\ last' = Step("docLoaded", r.doc, NoAlert, TRUE)
                 ELSE /\ pdf' = [p1 EXCEPT !.pageCount = NumPages(p1.pdfDoc[1])]
                      /\ renders' = [renders EXCEPT ![i] =
                            RenderTask("page", p1.pdfDoc[1], p1.pageNum, 0, FALSE)]
                      /\ last' = Step("docLoaded", r.doc, NoAlert, FALSE)
    /\ UNCHANGED <<ls, booted, config, books, filteredBooks, activeTags,
                   fields, tags, fuse, editingId, dom, scans, reads, download,
                   search, opened, editLog>>

\* getDocument(url) rejects: renderPdfPage ends with the rejection
DocFailed ==
    /\ \E i \in 1..Len(renders) :
          /\ renders[i].at = "doc"
          /\ renders' = RemoveAt(renders, i)
          /\ last' = Step("docFailed", renders[i].doc, NoAlert, TRUE)
    /\ UNCHANGED <<ls, booted, config, books, filteredBooks, activeTags,
                   fields, tags, fuse, pdf, sessions, editingId, dom, scans,
                   reads, download, search, opened, editLog>>

\* getPage(num) settles: on a page of an open document the drawing starts
\* at the current scale, otherwise renderPdfPage ends with the rejection
PageReady ==
    /\ \E i \in 1..Len(renders) :
          LET r == renders[i]
          IN  /\ r.at = "page"
              /\ IF r.doc \in sessions /\ r.num \in 1..NumPages(r.doc)
                 THEN /\ renders' = [renders EXCEPT ![i] =
                            RenderTask("render", r.doc, r.num, pdf.scale, FALSE)]
                      /\ last' = Step("pageReady", r.doc, NoAlert, FALSE)
                 ELSE /\ renders' = RemoveAt(renders, i)
                      /\ last' = Step("pageReady", r.doc, NoAlert, TRUE)
    /\ UNCHANGED <<ls, booted, config, books, filteredBooks, activeTags,
                   fields, tags, fuse, pdf, sessions, editingId, dom, scans,
                   reads, download, search, opened, editLog>>

\* page.render(...) resolves: the page is on the canvas and the two labels
\* are written from state.pdf
RenderDone ==
    /\ \E i \in 1..Len(renders) :
          LET r == renders[i]
          IN  /\ r.at = "render"
              /\ renders' = RemoveAt(renders, i)
              /\ dom' = [dom EXCEPT
                    !.canvas = Some([doc |-> r.doc, num |-> r.num, scale |-> r.scale]),
                    !.pageInfo = Some([page |-> pdf.pageNum, count |-> pdf.pageCount]),
                    !.zoomLevel = Some(pdf.scale * 10)]
              /\ last' = Step("renderDone", r.doc, NoAlert, FALSE)
    /\ UNCHANGED <<ls, booted, config, books, filteredBooks, activeTags,
                   fields, tags, fuse, pdf, sessions, editingId, scans, reads,
                   download, search, opened, editLog>>

\* closePdf: the close button of the viewer
ClosePdf ==
    /\ booted = "done"
    /\ dom.pdfModal
    /\ dom' = [dom EXCEPT !.pdfModal = FALSE]
    /\ sessions' = IF pdf.pdfDoc = None THEN sessions ELSE sessions \ {pdf.pdfDoc[1]}
    /\ pdf' = PdfDefaults
    /\ renders' = Orphaned(renders)
    /\ last' = Step("closePdf", 0, NoAlert, FALSE)
    /\ UNCHANGED <<ls, booted, config, books, filteredBooks, activeTags,
                   fields, tags, fuse, editingId, scans, reads, download,
                   search, opened, editLog>>

\* state.pdf.minScale, maxScale and step, in tenths
MinScale  == 5
MaxScale  == 25
ScaleStep == 1

\* NextPage without the test against pageCount
TurnedForwardUnclamped(p) == [p EXCEPT !.pageNum = p.pageNum + 1]

\* state.pdf after the next-page handler's test and increment
TurnedForward(p) ==
    IF p.pageNum < p.pageCount THEN [p EXCEPT !.pageNum = p.pageNum + 1] ELSE p

\* state.pdf after the previous-page handler's test and decrement
TurnedBack(p) ==
    IF p.pageNum > 1 THEN [p EXCEPT !.pageNum = p.pageNum - 1] ELSE p

\* a handler of the viewer's toolbar left state.pdf as p and, when draws
\* holds, called renderPdfPage
Toolbar(op, p, draws) ==
    /\ booted = "done"
    /\ dom.pdfModal
    /\ pdf' = p
    /\ IF draws
       THEN /\ Len(renders) < MaxRenders
            /\ renders' = Append(renders, StartRender(p))
       ELSE renders' = renders
    /\ last' = Step(op, 0, NoAlert, FALSE)
    /\ UNCHANGED <<ls, booted, config, books, filteredBooks, activeTags, fields,
                   tags, fuse, sessions, editingId, dom, scans, reads, download,
                   search, opened, editLog>>

\* the click on #prevPageBtn
PrevPage == Toolbar("prevPage", TurnedBack(pdf), pdf.pageNum > 1)

\* the click on #nextPageBtn
NextPage == Toolbar("nextPage", TurnedForward(pdf), pdf.pageNum < pdf.pageCount)

\* the click on #zoomInBtn; tenths stand for the sums of 0.1 the code forms
ZoomIn ==
    /\ pdf.scale < 10 + MaxZoom
    /\ Toolbar("zoomIn", [pdf EXCEPT !.scale = Min(pdf.scale + ScaleStep, MaxScale)],
               TRUE)

\* the click on #zoomOutBtn
ZoomOut ==
    /\ pdf.scale > 10 - MaxZoom
    /\ Toolbar("zoomOut", [pdf EXCEPT !.scale = Max(pdf.scale - ScaleStep, MinScale)],
               TRUE)

-----------------------------------------------------------------------------
(* The viewer and the configuration panel over a stored catalog *)

SizedBook(id, name, size) ==
    [id |-> id, title |-> name, author |-> <<>>, field |-> <<>>, tags |-> <<>>,
     description |-> <<>>, path |-> name \o <<".", "p", "d", "f">>,
     filename |-> name \o <<".", "p", "d", "f">>, sizeBytes |-> size,
     addedAt |-> Num(1000), metadataSource |-> "manifest"]

\* a catalog as scanBooks stored it, with sizes at and around the
\* thresholds the panel can set
SizedCatalog ==
    <<SizedBook("d0", <<"0">>, JSNull),
      SizedBook("d1", <<"1">>, Num(10 * MB)),
      SizedBook("d2", <<"2">>, Num(10 * MB + 1))>>

\* the thresholds earlier sessions have stored
StoredSized ==
    {[config |-> c, books |-> LsJson(SizedCatalog)] :
        c \in {LsAbsent, LsJson([maxViewerSizeMB |-> 1]),
               LsJson([maxViewerSizeMB |-> 50])}}

InitViewer == InitWith(StoredSized)

NextViewer ==
    \/ Boot
    \/ ViewClick
    \/ DocLoaded
    \/ DocFailed
    \/ PageReady
    \/ RenderDone
    \/ ClosePdf

SpecViewer == InitViewer /\ [][NextViewer]_vars

\* the pages of the viewer over the stored catalog: a document of one page,
\* one of two pages, and one the viewer does not take; the user turns pages
\* and zooms in
InitPages == InitWith({[config |-> LsAbsent, books |-> LsJson(SizedCatalog)]})

NextPages ==
    \/ Boot
    \/ ViewClick
    \/ PrevPage
    \/ NextPage
    \/ ZoomIn
    \/ DocLoaded
    \/ PageReady
    \/ RenderDone
    \/ ClosePdf

SpecPages == InitPages /\ [][NextPages]_vars

-----------------------------------------------------------------------------
(* Export, and the catalog operations with it *)

\* #exportJsonBtn is clicked: exportBooksJson offers the manifest of the
\* catalog as the download books.json
Export ==
    /\ booted = "done"
    /\ Len(download) < MaxExports
    /\ download' = Append(download, exportBooksJson(books))
    /\ last' = Step("export", 0, NoAlert, FALSE)
    /\ UNCHANGED <<ls, booted, config, books, filteredBooks, activeTags, fields,
                   tags, fuse, viewer, editingId, dom, scans, reads, editLog,
                   search>>

\* the files of a user who imports what was exported, or a file that does
\* not parse
ExportedFiles ==
    {FileGarbage} \cup {FileArray(download[i]) : i \in 1..Len(download)}

ImportExported == ImportLoadOf(ExportedFiles)

InitRoundTrip == InitWith({[config |-> LsAbsent, books |-> LsAbsent]})

NextRoundTrip ==
    \/ Boot
    \/ ScanStart
    \/ ScanSettle
    \/ ImportStart
    \/ ImportExported
    \/ OpenEdit
    \/ CloseEdit
    \/ SubmitEdit
    \/ Export

SpecRoundTrip == InitRoundTrip /\ [][NextRoundTrip]_vars

-----------------------------------------------------------------------------
(* The Escape key, and the three modals together *)

\* the keydown handler for Escape: three tests one after the other, each
\* closing its modal when that modal is displayed
Escape ==
    /\ booted = "done"
    /\ dom' = [dom EXCEPT !.pdfModal = FALSE, !.editModal = FALSE,
                          !.configModal = FALSE]
    /\ IF dom.pdfModal
       THEN /\ sessions' = IF pdf.pdfDoc = None THEN sessions
                           ELSE sessions \ {pdf.pdfDoc[1]}
            /\ pdf' = PdfDefaults
            /\ renders' = Orphaned(renders)
       ELSE UNCHANGED <<pdf, sessions, renders>>
    /\ editingId' = IF dom.editModal THEN None ELSE editingId
    /\ last' = Step("escape", 0, NoAlert, FALSE)
    /\ UNCHANGED <<ls, booted, config, books, filteredBooks, activeTags,
                   fields, tags, fuse, scans, reads, download, search, opened,
                   editLog>>

InitModals == InitWith({[config |-> LsAbsent, books |-> LsJson(SizedCatalog)]})

NextModals ==
    \/ Boot
    \/ ViewClick
    \/ ClosePdf
    \/ OpenEdit
    \/ CloseEdit
    \/ OpenConfig
    \/ CloseConfig
    \/ Escape

SpecModals == InitModals /\ [][NextModals]_vars

-----------------------------------------------------------------------------
(* The filter controls *)

\* the values of the options of #sortSelect
SortOptions ==
    {"title", "title-desc", "author", "author-desc", "field", "size", "date"}

\* change of #fieldFilter: the user picks one of its options
FieldChange ==
    /\ booted = "done"
    /\ \E v \in {<<>>} \cup fields :
          /\ dom' = [dom EXCEPT !.fieldFilter = v]
          /\ last' = Step("fieldChange", v, NoAlert, FALSE)
    /\ filteredBooks' = applyFilters(dom', books, fuse, activeTags)
    /\ UNCHANGED <<ls, booted, config, books, activeTags, fields, tags, fuse,
                   viewer, editingId, scans, reads, download, editLog, search>>

\* change of #sortSelect
SortChange ==
    /\ booted = "done"
    /\ \E v \in SortOptions :
          /\ dom' = [dom EXCEPT !.sortSelect = v]
          /\ last' = Step("sortChange", v, NoAlert, FALSE)
    /\ filteredBooks' = applyFilters(dom', books, fuse, activeTags)
    /\ UNCHANGED <<ls, booted, config, books, activeTags, fields, tags, fuse,
                   viewer, editingId, scans, reads, download, editLog, search>>

\* the click on a tag button: the tag enters or leaves state.activeTags and
\* the button's active class is toggled
TagClick ==
    /\ booted = "done"
    /\ \E tag \in dom.tagButtons :
          /\ activeTags' = IF tag \in activeTags THEN activeTags \ {tag}
                           ELSE activeTags \cup {tag}
          /\ dom' = [dom EXCEPT !.activeButtons =
                        IF tag \in dom.activeButtons
                        THEN dom.activeButtons \ {tag}
                        ELSE dom.activeButtons \cup {tag}]
          /\ last' = Step("tagClick", tag, NoAlert, FALSE)
    /\ filteredBooks' = applyFilters(dom', books, fuse, activeTags')
    /\ UNCHANGED <<ls, booted, config, books, fields, tags, fuse, viewer,
                   editingId, scans, reads, download, editLog, search>>

\* the click on #resetFiltersBtn
ResetFilters ==
    /\ booted = "done"
    /\ activeTags' = {}
    /\ dom' = [dom EXCEPT !.searchInput = <<>>, !.fieldFilter = <<>>,
                          !.activeButtons = {}]
    /\ filteredBooks' = applyFilters(dom', books, fuse, activeTags')
    /\ last' = Step("resetFilters", 0, NoAlert, FALSE)
    /\ UNCHANGED <<ls, booted, config, books, fields, tags, fuse, viewer,
                   editingId, scans, reads, download, editLog, search>>

\* the click on #clearSearchBtn
ClearSearch ==
    /\ booted = "done"
    /\ dom' = [dom EXCEPT !.searchInput = <<>>, !.clearSearchBtn = FALSE]
    /\ filteredBooks' = applyFilters(dom', books, fuse, activeTags)
    /\ last' = Step("clearSearch", 0, NoAlert, FALSE)
    /\ UNCHANGED <<ls, booted, config, books, activeTags, fields, tags, fuse,
                   viewer, editingId, scans, reads, download, editLog, search>>

tAl == <<"a", "l">>

TaggedBook(id, name, field, tagList) ==
    [id |-> id, title |-> name, author |-> <<>>, field |-> field,
     tags |-> tagList, description |-> <<>>,
     path |-> name \o <<".", "p", "d", "f">>,
     filename |-> name \o <<".", "p", "d", "f">>, sizeBytes |-> JSNull,
     addedAt |-> Num(1000), metadataSource |-> "manifest"]

\* a catalog as scanBooks stored it: three documents tagged {an}, {al} and
\* {an, cl}, in two fields
TaggedCatalog ==
    <<TaggedBook("t1", <<"r">>, <<"a", "n", "a">>, <<tAn>>),
      TaggedBook("t2", <<"l">>, <<"a", "l", "g">>, <<tAl>>),
      TaggedBook("t3", <<"u">>, <<"a", "n", "a">>, <<tAn, tCl>>)>>

InitFilter == InitWith({[config |-> LsAbsent, books |-> LsJson(TaggedCatalog)]})

\* what a scan comes to while the filters are set: no manifest, a manifest
\* that replaces the catalog, a manifest with an entry that has no path
FilterFetches ==
    {FetchFailed, FetchArray(<<EntryFull, EntryBare>>), FetchArray(<<EntryNoPath>>)}

NextFilter ==
    \/ Boot
    \/ FieldChange
    \/ SortChange
    \/ TagClick
    \/ ResetFilters
    \/ ClearSearch
    \/ ScanStart
    \/ ScanSettleOf(FilterFetches)

SpecFilter == InitFilter /\ [][NextFilter]_vars

-----------------------------------------------------------------------------
(* The debounced search *)

\* the delay of debounce(applyFiltersAndRender, 200), in tenths of a second
DebounceDelay == 2

\* Debounced without clearTimeout
DebouncedNoCancel(due, now) == due \cup {now + DebounceDelay}

\* clearTimeout(t); t = setTimeout(..., delay): the timers pending after a
\* call at the time now
Debounced(due, now) == {now + DebounceDelay}

\* what the user leaves in #searchInput
Queries == {<<>>, <<"a", "n">>, <<"r", " ">>}

\* a timer that is due runs before the clock moves on and before a later
\* event is handled
TimerDue == \E d \in search.due : d <= search.now

\* the input event of #searchInput; typed is the event handled last, events
\* and runs count the events of its burst and the debounced runs since the
\* burst began; the clock tells two events apart, so there is one event to
\* a tenth of a second
TypeSearch ==
    /\ booted = "done"
    /\ ~TimerDue
    /\ IF search.typed = None THEN TRUE ELSE search.typed[1].at < search.now
    /\ \E text \in Queries :
          /\ dom' = [dom EXCEPT !.searchInput = text,
                                !.clearSearchBtn = (text # <<>>)]
          /\ search' =
                [now   |-> search.now,
                 due   |-> Debounced(search.due, search.now),
                 typed |-> Some([at |-> search.now, text |-> text]),
                 events |-> IF search.typed # None
                               /\ search.now - search.typed[1].at < DebounceDelay
                            THEN search.events + 1 ELSE 1,
                 runs  |-> IF search.typed # None
                              /\ search.now - search.typed[1].at < DebounceDelay
                           THEN search.runs ELSE 0]
          /\ last' = Step("searchInput", text, NoAlert, FALSE)
    /\ UNCHANGED <<ls, booted, config, books, filteredBooks, activeTags, fields,
                   tags, fuse, viewer, editingId, scans, reads, download,
                   editLog>>

\* a tenth of a second passes
Tick ==
    /\ search.now < MaxTicks
    /\ ~TimerDue
    /\ search' = [search EXCEPT !.now = @ + 1]
    /\ UNCHANGED <<ls, booted, config, books, filteredBooks, activeTags, fields,
                   tags, fuse, viewer, editingId, dom, scans, reads, download,
                   editLog, last>>

\* a timer of the debounced search fires: applyFiltersAndRender
SearchTimer ==
    /\ booted = "done"
    /\ \E d \in search.due :
          /\ d <= search.now
          /\ search' = [search EXCEPT !.due = @ \ {d}, !.runs = @ + 1]
    /\ filteredBooks' = applyFilters(dom, books, fuse, activeTags)
    /\ last' = Step("searchRun", dom.searchInput, NoAlert, FALSE)
    /\ UNCHANGED <<ls, booted, config, books, activeTags, fields, tags, fuse,
                   viewer, editingId, dom, scans, reads, download, editLog>>

InitSearch == InitWith({[config |-> c, books |-> LsJson(TaggedCatalog)] :
                            c \in {LsAbsent, LsJson([fuzzySearch |-> FALSE])}})

NextSearch ==
    \/ Boot
    \/ TypeSearch
    \/ Tick
    \/ SearchTimer
    \/ ClearSearch
    \/ ResetFilters

SpecSearch == InitSearch /\ [][NextSearch]_vars

-----------------------------------------------------------------------------
(* The catalog operations and the configuration panel together *)

\* the configuration an earlier session saved
SavedEarlier ==
    [rootFolder |-> sBooks, fuzzySearch |-> FALSE, searchThreshold |-> 25,
     maxViewerSizeMB |-> 10]

\* the first visit, or a visit after a session that scanned and saved a
\* configuration: both keys hold what saveConfig and saveBooks wrote
InitApp ==
    InitWith({[config |-> LsAbsent, books |-> LsAbsent],
              [config |-> saveConfig(SavedEarlier),
               books |-> saveBooks(<<StoredFull>>)]})

\* the panel as the user leaves it: fuzzy search off with a threshold of
\* 0.25, or fuzzy search on with the threshold at 0
AppForms == {form \in ConfigForms : form.rootFolder # sBooks}

\* what is served and what is chosen for import: nothing usable, a
\* complete entry, a bare one, one without a path; served only, one with a
\* number out of range
AppManifests == {<<EntryFull>>, <<EntryBare>>, <<EntryNoPath>>}

AppFetches ==
    {FetchFailed, FetchArray(<<EntryOverflow>>)}
        \cup {FetchArray(m) : m \in AppManifests}

AppFiles == {FileGarbage} \cup {FileArray(m) : m \in AppManifests}

NextApp ==
    \/ Boot
    \/ ScanStart
    \/ ScanSettleOf(AppFetches)
    \/ ImportStart
    \/ ImportLoadOf(AppFiles)
    \/ OpenEdit
    \/ CloseEdit
    \/ SubmitEdit
    \/ OpenConfig
    \/ CloseConfig
    \/ SaveConfigOf(AppForms)

SpecApp == InitApp /\ [][NextApp]_vars

-----------------------------------------------------------------------------
(* Scans that overlap *)

\* the scan button stays enabled while a scan is pending: one click more
\* than the other specifications allow, with imports in between
InitScans == InitApp

NextScans ==
    \/ Boot
    \/ ScanStartUpTo(MaxScans + 1)
    \/ ScanSettleOf(AppFetches)
    \/ ImportStart
    \/ ImportLoadOf(AppFiles)

SpecScans == InitScans /\ [][NextScans]_vars

-----------------------------------------------------------------------------
(* Properties of the configuration panel and of the viewer *)

\* C5: a save sets maxViewerSizeMB to the integer in the field clamped to
\* [1, 50], and to the default 10 only when the field holds no integer; the
\* stored configuration is the one in memory.
C5_MaxViewerSizeClamped ==
    [][last'.op = "saveConfig"
        => LET typed == ParseInt(last'.arg.maxViewerSize)
           IN  /\ config'.maxViewerSizeMB =
                     (IF typed = NaN THEN 10 ELSE Max(1, Min(50, typed.num)))
               /\ ls'.config = LsJson(config')]_vars

\* C6: the view action opens a document in the viewer exactly when its size
\* is unknown or at most maxViewerSizeMB * 1,048,576 bytes; otherwise it
\* opens the locator in an external tab and leaves the viewer as it was.
C6_ViewerEligibility ==
    [][last'.op = "view"
        => LET b      == last'.arg
               known  == Has(b, "sizeBytes") /\ Has(b.sizeBytes, "num")
               inline == known => b.sizeBytes.num <= config.maxViewerSizeMB * 1048576
           IN  IF inline
               THEN /\ dom'.pdfModal
                    /\ pdf'.url = Some(EncodeURI(b.path))
                    /\ pdf'.pageNum = 1
                    /\ pdf'.title = b.title
                    /\ opened' = opened
               ELSE /\ opened' = Some(EncodeURI(b.path))
                    /\ pdf' = pdf
                    /\ dom' = dom
                    /\ renders' = renders]_vars

\* with the threshold at 10 the document of 10 MB and one byte went to an
\* external tab and the viewer is closed, at its defaults
C6_Witness ==
    /\ last.op = "view"
    /\ last.arg.sizeBytes = Num(10 * 1048576 + 1)
    /\ config.maxViewerSizeMB = 10
    /\ opened = Some(<<"2", ".", "p", "d", "f">>)
    /\ pdf = PdfDefaults
    /\ ~dom.pdfModal

-----------------------------------------------------------------------------
(* Properties of export *)

\* new holds the documents of old in their order, with the same values
RoundTripped(old, new) ==
    /\ Len(new) = Len(old)
    /\ \A i \in 1..Len(old) :
          /\ \A f \in {"id", "title", "author", "field", "tags", "description",
                       "path", "addedAt", "metadataSource"} :
                new[i][f] = old[i][f]
          /\ new[i].filename = old[i].filename
          /\ IF Has(old[i].sizeBytes, "num")
             THEN new[i].sizeBytes = old[i].sizeBytes
             ELSE ~Has(new[i].sizeBytes, "num")

\* C9: importing the file exported from the catalog yields the same
\* documents in the same order with the same id, title, author, field, tags,
\* description, path, addedAt and metadataSource, the same filename, and
\* sizeBytes equal when finite and non-finite where it was.
C9_ExportImportRoundTrip ==
    [][(/\ last'.op = "import"
        /\ download # <<>>
        /\ last'.arg = FileArray(download[1])
        /\ download[1] = exportBooksJson(books))
        => RoundTripped(books, books')]_vars

-----------------------------------------------------------------------------
(* Properties of the viewer's sessions *)

\* C11: while the viewer is closed its state is at the defaults and every
\* rendering session opened for it has been destroyed, also when the close
\* came while a document load or a page render was pending.
C11_ClosedViewerHoldsNothing ==
    (booted = "done" /\ ~dom.pdfModal) => (pdf = PdfDefaults /\ sessions = {})

-----------------------------------------------------------------------------
(* Properties of the Escape key *)

\* C12: one Escape closes only the first visible modal in the order viewer,
\* editor, configuration panel; the modals after it stay as they were and
\* the editor's target is kept.
C12_EscapeClosesFirstOnly ==
    [][last'.op = "escape"
        => IF dom.pdfModal
           THEN /\ ~dom'.pdfModal
                /\ dom'.editModal = dom.editModal
                /\ dom'.configModal = dom.configModal
                /\ editingId' = editingId
           ELSE IF dom.editModal
           THEN /\ ~dom'.editModal
                /\ dom'.configModal = dom.configModal
           ELSE ~dom'.configModal]_vars

-----------------------------------------------------------------------------
(* Properties of the loading indicator *)

\* C13: every scan whose fetch has settled ends with the loading indicator
\* off, on the success path and on every failure path.
C13_ScanEndsLoadingOff ==
    [][last'.op = "scan" => ~dom'.loading]_vars

-----------------------------------------------------------------------------
(* Properties of the filter pipeline *)

\* the step that ran last ended with a run of applyFiltersAndRender
PipelineRan ==
    \/ last.op \in {"fieldChange", "sortChange", "tagClick", "resetFilters",
                    "clearSearch"}
    \/ last.op = "boot" /\ ~last.threw
    \/ ScanSucceeded

Occurrences(list, b) == Cardinality({i \in 1..Len(list) : list[i] = b})

\* b is in the selected field, if one is selected, and carries every tag of
\* active
PassesFilters(b, field, active) ==
    /\ field # <<>> => b.field = field
    /\ \A t \in active : \E k \in 1..Len(b.tags) : b.tags[k] = t

\* C14: after a run of the filter pipeline with an empty query the filtered
\* list holds exactly the catalog documents whose field is the selected one
\* (when one is selected) and whose tags include every active tag.
C14_FilterConjunction ==
    [][(PipelineRan' /\ Trim(dom'.searchInput) = <<>>)
        => /\ \A j \in 1..Len(filteredBooks') :
                 \E i \in 1..Len(books') : filteredBooks'[j] = books'[i]
           /\ \A i \in 1..Len(books') :
                 Occurrences(filteredBooks', books'[i]) =
                    IF PassesFilters(books'[i], dom'.fieldFilter, activeTags')
                    THEN Occurrences(books', books'[i]) ELSE 0]_vars

\* of the documents tagged {an}, {al} and {an, cl}, the tags an and cl
\* being active, only the third is listed
C14_Witness ==
    /\ last.op = "tagClick"
    /\ books = TaggedCatalog
    /\ activeTags = {tAn, tCl}
    /\ dom.searchInput = <<>>
    /\ filteredBooks = <<TaggedCatalog[3]>>

-----------------------------------------------------------------------------
(* Properties of page navigation *)

\* C15: the page number stays within 1..pageCount in every state, and the
\* previous-page handler at page 1 and the next-page handler at the last
\* page change nothing.
C15_PageNumClamped ==
    [][/\ pdf'.pageNum >= 1
       /\ pdf'.pageNum <= pdf'.pageCount
       /\ (last'.op = "prevPage" /\ pdf.pageNum = 1)
             => (pdf' = pdf /\ renders' = renders /\ dom' = dom)
       /\ (last'.op = "nextPage" /\ pdf.pageNum = pdf.pageCount)
             => (pdf' = pdf /\ renders' = renders /\ dom' = dom)]_vars

\* next-page was clicked on the last page of the two-page document, which
\* was opened while the one-page document's load was still pending
C15_Witness ==
    /\ last.op = "nextPage"
    /\ pdf.pageNum = 2
    /\ pdf.pageCount = 2
    /\ pdf.url = Some(<<"1", ".", "p", "d", "f">>)
    /\ \E i \in 1..Len(renders) : renders[i].stale
    /\ \A i \in 1..Len(renders) : renders[i].at # "page"

-----------------------------------------------------------------------------
(* Properties of the debounced search *)

\* a step that is a run of the debounced pipeline
DebouncedRun == last'.op = "searchRun" /\ search'.runs = search.runs + 1

\* C16: a burst of input events less than 200 ms apart causes exactly one
\* run of the filter pipeline, after the last event of the burst and with
\* the query of that event.
C16_DebounceSingleFlight ==
    [][/\ DebouncedRun
             => /\ search.typed # None
                /\ search'.now - search.typed[1].at >= DebounceDelay
                /\ last'.arg = search.typed[1].text
                /\ filteredBooks' =
                      applyFilters([dom EXCEPT !.searchInput = search.typed[1].text],
                                   books, fuse, activeTags)
                /\ search'.runs = 1
       /\ (search'.typed # None
              /\ search'.now - search'.typed[1].at > DebounceDelay)
             => search'.runs = 1]_vars

\* C16, amended: a burst of input events less than 200 ms apart causes
\* exactly one debounced run of the filter pipeline, 200 ms after the last
\* event of the burst, and the run sees what the search field holds at that
\* moment: the query of the last event, or the empty query when the clear
\* or the reset button emptied the field during the quiet period.
C16_DebounceRunsOnceOnLiveField ==
    [][/\ DebouncedRun
             => /\ search.typed # None
                /\ search'.now - search.typed[1].at = DebounceDelay
                /\ last'.arg = dom.searchInput
                /\ dom.searchInput \in {search.typed[1].text, <<>>}
                /\ filteredBooks' = applyFilters(dom, books, fuse, activeTags)
                /\ search'.runs = 1
       /\ (search'.typed # None
              /\ search'.now - search'.typed[1].at > DebounceDelay)
             => search'.runs = 1]_vars

\* three events, each a tenth of a second after the one before, the last
\* leaving "an": one run, two tenths after the last event, listing the two
\* documents tagged an
C16_Witness ==
    /\ last.op = "searchRun"
    /\ search.typed = Some([at |-> 2, text |-> <<"a", "n">>])
    /\ search.now = 4
    /\ search.events = 3
    /\ search.runs = 1
    /\ last.arg = <<"a", "n">>
    /\ Len(filteredBooks) = 2

-----------------------------------------------------------------------------
(* Properties of the saved configuration and of what is stored *)

\* C18: the configuration save stores the number the user typed as
\* searchThreshold whenever it parses to a number from 0 to 1, 0 included,
\* and the default 0.4 only when the field does not parse.
C18_ThresholdIsWhatWasTyped ==
    [][last'.op = "saveConfig"
        => LET typed == ParseFloat(last'.arg.searchThreshold)
           IN  IF typed = NaN THEN config'.searchThreshold = 40
               ELSE typed.num \in 0..100
                       => config'.searchThreshold = typed.num]_vars

\* C17: each of scan, import, edit save and configuration save runs to
\* completion before any other event handler is processed: from the moment
\* an operation is triggered to the moment it finishes, no other handler
\* runs.
C17_NoHandlerInBetween ==
    [][/\ scans > 0 => last'.op = "scan"
       /\ reads > 0 => last'.op = "import"]_vars

\* the post-state of a step holds what the catalog operations leave behind:
\* the stored catalog, the index and the rendered list are those of the
\* catalog in memory
CatalogSettled ==
    /\ ls'.books = saveBooks(books')
    /\ fuse' = initFuse(config', books')
    /\ fields' = FacetFields(books')
    /\ tags' = FacetTags(books')
    /\ filteredBooks' = applyFilters(dom', books', fuse', activeTags')

\* C17, amended: edit save and configuration save run within one handler.
\* Scan and import are triggered by one handler and finished by a
\* continuation that runs when the fetch or the file read settles; the
\* triggering handler changes nothing of the catalog, other handlers may
\* run while the fetch or the read is pending, and the continuation runs
\* without interruption. When a scan, an import or an edit save replaces or
\* changes the catalog, the persistence write, the index rebuild and the
\* re-render have happened by the end of that same handler; a configuration
\* save writes the configuration and rebuilds the index and leaves the
\* rendered list as it is.
C17_SettlingRunsToCompletion ==
    [][/\ last'.op \in {"scanStart", "importStart"}
             => UNCHANGED <<ls, config, books, filteredBooks, fuse, fields, tags>>
       /\ (last'.op = "scan" /\ last'.alert = NoAlert /\ ~last'.threw)
             => CatalogSettled /\ ~dom'.loading /\ scans' = scans - 1
       /\ (last'.op = "import" /\ last'.alert = MsgImported)
             => CatalogSettled /\ reads' = reads - 1
       /\ (last'.op = "editSubmit" /\ books' # books)
             => CatalogSettled /\ ~dom'.editModal /\ editingId' = None
       /\ last'.op = "saveConfig"
             => /\ ls'.config = saveConfig(config')
                /\ fuse' = initFuse(config', books')
                /\ ~dom'.configModal
                /\ UNCHANGED <<books, filteredBooks>>]_vars

\* a scan has replaced the catalog while an import was pending and the
\* editor was open on a record the scan removed
C17_Witness ==
    /\ ScanSucceeded
    /\ reads > 0
    /\ dom.editModal
    /\ FindIndex(books, editingId) = 0
    /\ ls.books = saveBooks(books)
    /\ Len(books) > 0

C20_IndexFresh ==
    booted = "done"
        => /\ fuse # None <=> (config.fuzzySearch /\ Len(books) > 0)
           /\ fuse # None
                 => fuse[1] = [docs |-> books,
                               threshold |-> config.searchThreshold]

\* fuzzy search was switched off and on again over a catalog that an
\* import had loaded: the index is over that catalog, with the threshold
\* the second save left
C20_Witness ==
    /\ last.op = "saveConfig"
    /\ last.arg.fuzzySearch
    /\ config.maxViewerSizeMB = 50
    /\ Len(books) = 1
    /\ books[1].metadataSource = "import"
    /\ fuse = Some([docs |-> books, threshold |-> 40])

-----------------------------------------------------------------------------
(* Properties of the tag buttons, of the viewer's session and of the
   loading indicator *)

\* C21: in every state a tag button is displayed as active exactly when its
\* tag is among the active tag filters, and every active tag filter has a
\* button, also after a scan, an import or an edit save rebuilt the facets
\* while a tag filter was active.
C21_TagButtonsTrackFilter ==
    booted = "done"
        => /\ dom.activeButtons = activeTags \cap dom.tagButtons
           /\ activeTags \subseteq dom.tagButtons

\* C22: in every state in which the viewer holds a rendering session, the
\* session was opened for the viewer's current locator and pageCount is
\* that document's page count, also when a view arrives while the viewer is
\* open and when a load from an earlier open completes after a close and a
\* new open.
C22_SessionIsOfCurrentLocator ==
    pdf.pdfDoc # None
        => IF pdf.url = None THEN FALSE
           ELSE /\ pdf.pdfDoc[1] = pdf.url[1]
                /\ pdf.pageCount = NumPages(pdf.url[1])

\* C23: in every state in which a triggered scan has neither completed nor
\* failed the loading indicator is visible, also when a second scan is
\* triggered before the fetch of the first has settled.
C23_LoadingWhilePending ==
    scans > 0 => dom.loading

=============================================================================
